---- MODULE Spec2Model ----
(***************************************************************************)
(* join-csv (src/src/main.rs): a key join of CSV sources driven by a YAML  *)
(* specification.  main loads the JoinSpec, read_input indexes every       *)
(* source with read_file into an IndexMap from Key to Projection, and      *)
(* write_output writes the header and one row per entry of the first       *)
(* source.  A run is the record st; the specification document and the     *)
(* files (doc, fs) are the run's inputs and never change.  st2 is a second *)
(* run over the same inputs, used to compare two runs.                     *)
(***************************************************************************)
EXTENDS Integers, Sequences, FiniteSets, TLC

VARIABLES doc, fs, st, st2

vars == <<doc, fs, st, st2>>

(* Bounds of the explored inputs: the data rows of a file indexed alone,  *)
(* the data rows of each file of a join, the sources of a specification. *)
MaxRows == 3
MaxJoinRows == 2
MaxSources == 2

Range(s) == {s[x] : x \in DOMAIN s}

SeqsUpTo(S, n) == UNION {[1..k -> S] : k \in 0..n}

(***************************************************************************)
(* Inputs: the files and the specification document.                       *)
(***************************************************************************)
Paths == {"a.csv", "b.csv"}

(* the output paths that can be created (Writer::from_path succeeds) *)
Creatable == {"out.csv"}

KeyVals == {"1", "2"}

(* the text of the non-key field of row r of a file: distinct per row *)
CellText == ("a.csv" :> <<"a1", "a2", "a3", "a4">>) @@ ("b.csv" :> <<"b1", "b2", "b3", "b4">>)

Missing == [exists |-> FALSE, header |-> <<>>, rows |-> <<>>]

(* A row of kind k under header h: its id field is k; kind "bad" is a     *)
(* record with one field too many.                                        *)
MkRow(p, h, r, k) ==
  LET good == [c \in DOMAIN h |-> IF h[c] = "id" THEN (IF k = "bad" THEN "1" ELSE k) ELSE CellText[p][r]]
  IN IF k = "bad" THEN Append(good, "x") ELSE good

MkFile(p, h, ks) == [exists |-> TRUE, header |-> h, rows |-> [r \in DOMAIN ks |-> MkRow(p, h, r, ks[r])]]

FilesOf(p, headers, kinds, maxRows) ==
  {MkFile(p, h, ks) : h \in headers, ks \in SeqsUpTo(kinds, maxRows)} \cup {Missing}

SourceDecls(projs) == {[path |-> p, projections |-> pm] : p \in Paths, pm \in projs}

DocsOf(keys, projs, outputs, maxSources) ==
  {[readable |-> TRUE, wellFormed |-> TRUE, key |-> k, sources |-> ss, output |-> o] :
     k \in keys, ss \in SeqsUpTo(SourceDecls(projs), maxSources), o \in outputs}
  \cup {[readable |-> r, wellFormed |-> FALSE, key |-> <<>>, sources |-> <<>>, output |-> ""] :
          r \in BOOLEAN}

(***************************************************************************)
(* Outcomes.  A failure is either an Err returned through `?` (its message *)
(* is the error's Display: a csv error names the record's position) or a   *)
(* panic of unwrap()/indexing (its message names only the source line).    *)
(* No failure of this program names a Key or a source path: key and path   *)
(* are what the message identifies, and stay empty.                        *)
(***************************************************************************)
Running == [kind |-> "running", what |-> "", line |-> 0, rec |-> 0, key |-> {}, path |-> {}]

Success == [kind |-> "ok", what |-> "", line |-> 0, rec |-> 0, key |-> {}, path |-> {}]

Err(what, rec) == [kind |-> "error", what |-> what, line |-> 0, rec |-> rec, key |-> {}, path |-> {}]

Panic(what, line) == [kind |-> "panic", what |-> what, line |-> line, rec |-> 0, key |-> {}, path |-> {}]

(* A failure ends the run: locals are dropped, no later step is taken. *)
Fail(s, o) == [s EXCEPT !.pc = "done", !.outcome = o, !.data = <<>>, !.key_idx = <<>>, !.proj_idx = <<>>]

(***************************************************************************)
(* std HashMap<String, usize> (headers): entries in bucket order, which    *)
(* depends on the map's random seed; a key occurs once.                    *)
(***************************************************************************)
Seeds == {0, 1}

HashInsert(m, k, v, seed) ==
  IF \E x \in DOMAIN m : m[x].k = k
    THEN [x \in DOMAIN m |-> IF m[x].k = k THEN [k |-> k, v |-> v] ELSE m[x]]
    ELSE IF seed = 0 THEN Append(m, [k |-> k, v |-> v])
                     ELSE <<[k |-> k, v |-> v]>> \o m

(* HashMap::get: the Option as a set of at most one value. *)
HashGet(m, k) == {m[x].v : x \in {y \in DOMAIN m : m[y].k = k}}

RECURSIVE CollectHeaders(_, _, _, _)
CollectHeaders(header, from, m, seed) ==
  IF from > Len(header) THEN m
  ELSE CollectHeaders(header, from + 1, HashInsert(m, header[from], from - 1, seed), seed)

(* lines 37-42: column name -> zero-based offset, a later duplicate wins *)
HeaderMap(header, seed) == CollectHeaders(header, 1, <<>>, seed)

(* a lookup that takes the entry's place in the map for its offset *)
ResolveByPosition(m, names) ==
  [c \in DOMAIN names |-> {x - 1 : x \in {y \in DOMAIN m : m[y].k = names[c]}}]

(* lines 43-50: each requested name looked up in the header map *)
Resolve(m, names) == [c \in DOMAIN names |-> HashGet(m, names[c])]

Unwrap(o) == CHOOSE x \in o : TRUE

(* lines 55-62: the fields of a record at the resolved offsets *)
Extract(rec, idxs) == [c \in DOMAIN idxs |-> rec[idxs[c] + 1]]

(***************************************************************************)
(* IndexMap<Key, Projection> (Data): a sequence of entries in insertion    *)
(* order.  insert replaces the value of a present key in place.            *)
(***************************************************************************)
IndexOf(data, key) == {x \in DOMAIN data : data[x].key = key}

(* an insert that moves a replaced key to the end (remove, then push) *)
InsertMoveToEnd(data, key, val) ==
  LET kept == {x \in DOMAIN data : data[x].key # key}
      Nth(c) == CHOOSE x \in kept : Cardinality({y \in kept : y < x}) = c - 1
  IN Append([c \in 1..Cardinality(kept) |-> data[Nth(c)]], [key |-> key, val |-> val])

Insert(data, key, val) ==
  IF IndexOf(data, key) # {}
    THEN [x \in DOMAIN data |-> IF data[x].key = key THEN [key |-> key, val |-> val] ELSE data[x]]
    ELSE Append(data, [key |-> key, val |-> val])

(* IndexMap::get *)
Lookup(data, key) == {data[x].val : x \in IndexOf(data, key)}

(* source.projections.keys() / .values(), in the map's insertion order *)
ProjKeys(projections) == [c \in DOMAIN projections |-> projections[c][1]]

ProjValues(projections) == [c \in DOMAIN projections |-> projections[c][2]]

RECURSIVE Flatten(_)
Flatten(ss) == IF ss = <<>> THEN <<>> ELSE Head(ss) \o Flatten(Tail(ss))

(***************************************************************************)
(* The run.  A run's state:                                                *)
(*   pc        where main is: "load", "open" (read_file is about to open   *)
(*             source i), "rows" (in the record loop of source i), "write" *)
(*             (write_output is about to open the output), "emit" (in the  *)
(*             row loop), "done"                                           *)
(*   spec      the JoinSpec               i     the source being indexed   *)
(*   key_idx, proj_idx, data, n   read_file's locals; n counts the records *)
(*             taken from the reader                                       *)
(*   input     join_input                 j     driver entries written     *)
(*   created, out   whether the output path was created, and the records   *)
(*             given to its writer (flushed when the writer is dropped)    *)
(*   io        the files opened so far, in order                           *)
(***************************************************************************)
NoSpec == [key |-> <<>>, sources |-> <<>>, output |-> ""]

Start ==
  [pc |-> "load", outcome |-> Running, spec |-> NoSpec, i |-> 0,
   key_idx |-> <<>>, proj_idx |-> <<>>, data |-> <<>>, n |-> 0,
   input |-> <<>>, j |-> 0, created |-> FALSE, out |-> <<>>, io |-> <<>>]

IoSpec == [op |-> "spec", path |-> ""]

IoOpen(path) == [op |-> "open", path |-> path]

IoCreate(path) == [op |-> "create", path |-> path]

(* a load that creates the output before any source is indexed *)
LoadSpecEager(s) ==
  LET t == [s EXCEPT !.io = Append(@, IoSpec)] IN
  IF ~doc.readable THEN Fail(t, Err("io::Error", 0))
  ELSE IF ~doc.wellFormed THEN Fail(t, Err("serde_yaml::Error", 0))
  ELSE [t EXCEPT !.spec = [key |-> doc.key, sources |-> doc.sources, output |-> doc.output],
                 !.i = 1, !.created = TRUE,
                 !.pc = IF Len(doc.sources) = 0 THEN "write" ELSE "open"]

(* lines 115-117: serde deserializes the document's fields as they are *)
load_spec(d) == [key |-> d.key, sources |-> d.sources, output |-> d.output]

(* lines 120-124: load the specification, then enter read_input's loop *)
LoadSpecStep(s) ==
  LET t == [s EXCEPT !.io = Append(@, IoSpec)] IN
  IF ~doc.readable THEN Fail(t, Err("io::Error", 0))
  ELSE IF ~doc.wellFormed THEN Fail(t, Err("serde_yaml::Error", 0))
  ELSE LET sp == load_spec(doc) IN
       [t EXCEPT !.spec = sp, !.i = 1,
                 !.pc = IF Len(sp.sources) = 0 THEN "write" ELSE "open"]

(* an open that leaves a missing column to be found when a record is read *)
OpenSourceLazy(s, seed) ==
  LET src == s.spec.sources[s.i]
      f == fs[src.path]
      t == [s EXCEPT !.io = Append(@, IoOpen(src.path)), !.n = 0, !.data = <<>>]
      headers == HeaderMap(f.header, seed)
      Offset(name) == IF HashGet(headers, name) = {} THEN Len(f.header) + 1
                      ELSE Unwrap(HashGet(headers, name))
  IN IF ~f.exists THEN Fail(t, Err("io::Error", 0))
     ELSE [t EXCEPT !.pc = "rows",
                    !.key_idx = [c \in DOMAIN s.spec.key |-> Offset(s.spec.key[c])],
                    !.proj_idx = [c \in DOMAIN src.projections |-> Offset(src.projections[c][1])]]

(* lines 35-52: open the source, resolve every requested column, then     *)
(* create the empty map                                                    *)
OpenSourceStep(s, seed) ==
  LET src == s.spec.sources[s.i]
      f == fs[src.path]
      t == [s EXCEPT !.io = Append(@, IoOpen(src.path)), !.n = 0, !.data = <<>>]
      headers == HeaderMap(f.header, seed)
      keys == Resolve(headers, s.spec.key)
      projs == Resolve(headers, ProjKeys(src.projections))
  IN IF ~f.exists THEN Fail(t, Err("io::Error", 0))
     ELSE IF {} \in Range(keys) THEN Fail(t, Panic("unwrap on None", 45))
     ELSE IF {} \in Range(projs) THEN Fail(t, Panic("unwrap on None", 49))
     ELSE [t EXCEPT !.pc = "rows",
                    !.key_idx = [c \in DOMAIN keys |-> Unwrap(keys[c])],
                    !.proj_idx = [c \in DOMAIN projs |-> Unwrap(projs[c])]]

(* a record loop that skips a record of the wrong length *)
ReadRecordLenient(s) ==
  LET f == fs[s.spec.sources[s.i].path]
      rec == f.rows[s.n + 1]
      t == [s EXCEPT !.n = @ + 1]
  IN IF Len(rec) # Len(f.header) THEN t
     ELSE [t EXCEPT !.data = Insert(@, Extract(rec, s.key_idx), Extract(rec, s.proj_idx))]

(* lines 53-64: one iteration of the record loop.  The reader is not      *)
(* flexible: a record whose field count differs from the header's is an   *)
(* UnequalLengths error carrying the record's position.                   *)
ReadRecordStep(s) ==
  LET f == fs[s.spec.sources[s.i].path]
      rec == f.rows[s.n + 1]
      t == [s EXCEPT !.n = @ + 1]
  IN IF Len(rec) # Len(f.header) THEN Fail(t, Err("csv::UnequalLengths", s.n + 1))
     ELSE IF \E c \in DOMAIN s.key_idx : s.key_idx[c] >= Len(rec)
       THEN Fail(t, Panic("unwrap on None", 57))
     ELSE IF \E c \in DOMAIN s.proj_idx : s.proj_idx[c] >= Len(rec)
       THEN Fail(t, Panic("unwrap on None", 61))
     ELSE [t EXCEPT !.data = Insert(@, Extract(rec, s.key_idx), Extract(rec, s.proj_idx))]

(* lines 66, 77-79: the reader is exhausted; read_file returns the map,   *)
(* read_input pushes it and goes on to the next source or returns         *)
EndOfSourceStep(s) ==
  [s EXCEPT !.input = Append(@, s.data), !.data = <<>>,
            !.key_idx = <<>>, !.proj_idx = <<>>, !.i = @ + 1,
            !.pc = IF s.i = Len(s.spec.sources) THEN "write" ELSE "open"]

(* a header made of the projections' source column names *)
HeaderRowSourceNames(spec) ==
  spec.key \o Flatten([x \in DOMAIN spec.sources |-> ProjKeys(spec.sources[x].projections)])

(* lines 91-99 *)
HeaderRow(spec) ==
  spec.key \o Flatten([x \in DOMAIN spec.sources |-> ProjValues(spec.sources[x].projections)])

(* csv Writer::write_record: the writer is not flexible either *)
WriteRecord(s, row) ==
  IF s.out # <<>> /\ Len(row) # Len(s.out[1])
    THEN Fail(s, Err("csv::UnequalLengths", 0))
    ELSE [s EXCEPT !.out = Append(@, row)]

(* lines 83-102: create the output, write the header, take input[0] *)
OpenOutputStep(s) ==
  LET t == [s EXCEPT !.io = Append(@, IoCreate(s.spec.output))] IN
  IF s.spec.output \notin Creatable THEN Fail(t, Err("io::Error", 0))
  ELSE LET u == WriteRecord([t EXCEPT !.created = TRUE, !.out = <<>>, !.j = 0], HeaderRow(s.spec)) IN
       IF u.pc = "done" THEN u
       ELSE IF Len(s.input) = 0 THEN Fail(u, Panic("index out of bounds", 102))
       ELSE [u EXCEPT !.pc = "emit"]

(* line 102: the first source's map drives the row loop *)
DriverLast(input) == input[Len(input)]

Driver(input) == input[1]

(* lines 103-108: the row of one driver entry; the Option of each lookup  *)
JoinLookups(input, key) == [x \in 1..(Len(input) - 1) |-> Lookup(input[x + 1], key)]

JoinRowDriverLast(entry, found) ==
  entry.key \o Flatten([x \in DOMAIN found |-> Unwrap(found[x])]) \o entry.val

JoinRow(entry, found) ==
  entry.key \o entry.val \o Flatten([x \in DOMAIN found |-> Unwrap(found[x])])

(* lines 102-110: one iteration of the row loop *)
EmitRowStep(s) ==
  LET entry == Driver(s.input)[s.j + 1]
      found == JoinLookups(s.input, entry.key)
  IN IF {} \in Range(found) THEN Fail(s, Panic("unwrap on None", 107))
     ELSE WriteRecord([s EXCEPT !.j = @ + 1], JoinRow(entry, found))

(* lines 112, 125-126 *)
FinishStep(s) == [s EXCEPT !.pc = "done", !.outcome = Success]

(* The step a run takes next; seed is the random state of a HashMap       *)
(* created in the step.                                                   *)
CanStep(s) == s.pc # "done"

Step(s, seed) ==
  CASE s.pc = "load" -> LoadSpecStep(s)
    [] s.pc = "open" -> OpenSourceStep(s, seed)
    [] s.pc = "rows" /\ s.n < Len(fs[s.spec.sources[s.i].path].rows) -> ReadRecordStep(s)
    [] s.pc = "rows" /\ s.n >= Len(fs[s.spec.sources[s.i].path].rows) -> EndOfSourceStep(s)
    [] s.pc = "write" -> OpenOutputStep(s)
    [] s.pc = "emit" /\ s.j < Len(Driver(s.input)) -> EmitRowStep(s)
    [] s.pc = "emit" /\ s.j >= Len(Driver(s.input)) -> FinishStep(s)

(***************************************************************************)
(* Actions of one run.                                                     *)
(***************************************************************************)
LoadSpec == st.pc = "load" /\ st' = LoadSpecStep(st) /\ UNCHANGED <<doc, fs, st2>>

OpenSource ==
  /\ st.pc = "open"
  /\ \E seed \in Seeds : st' = OpenSourceStep(st, seed)
  /\ UNCHANGED <<doc, fs, st2>>

ReadRecord ==
  /\ st.pc = "rows"
  /\ st.n < Len(fs[st.spec.sources[st.i].path].rows)
  /\ st' = ReadRecordStep(st)
  /\ UNCHANGED <<doc, fs, st2>>

EndOfSource ==
  /\ st.pc = "rows"
  /\ st.n >= Len(fs[st.spec.sources[st.i].path].rows)
  /\ st' = EndOfSourceStep(st)
  /\ UNCHANGED <<doc, fs, st2>>

OpenOutput == st.pc = "write" /\ st' = OpenOutputStep(st) /\ UNCHANGED <<doc, fs, st2>>

EmitRow ==
  /\ st.pc = "emit"
  /\ st.j < Len(Driver(st.input))
  /\ st' = EmitRowStep(st)
  /\ UNCHANGED <<doc, fs, st2>>

Finish ==
  /\ st.pc = "emit"
  /\ st.j >= Len(Driver(st.input))
  /\ st' = FinishStep(st)
  /\ UNCHANGED <<doc, fs, st2>>

Next == LoadSpec \/ OpenSource \/ ReadRecord \/ EndOfSource \/ OpenOutput \/ EmitRow \/ Finish


(***************************************************************************)
(* Spec: one run of main joining up to MaxSources sources over two files. *)
(***************************************************************************)
RowKinds == KeyVals \cup {"bad"}

JoinHeaders == {<<"v", "id">>, <<"v">>}

JoinKeys == {<<>>, <<"id">>}

JoinProjs == {<< <<"v", "x">>, <<"id", "y">> >>}

Outputs == {"out.csv", "nodir/out.csv"}

JoinFileSystems ==
  {("a.csv" :> fa) @@ ("b.csv" :> fb) :
     fa \in FilesOf("a.csv", JoinHeaders, RowKinds, MaxJoinRows),
     fb \in FilesOf("b.csv", JoinHeaders, RowKinds, MaxJoinRows)}

Init ==
  /\ doc \in DocsOf(JoinKeys, JoinProjs, Outputs, MaxSources)
  /\ fs \in JoinFileSystems
  /\ st = Start
  /\ st2 = Start

Spec == Init /\ [][Next]_vars

(***************************************************************************)
(* SpecIndex: one run over a specification of at most one source, whose   *)
(* file, key columns and projection vary widely: read_file on its own.    *)
(***************************************************************************)
IndexHeaders == {<<"id", "v">>, <<"v", "id">>, <<"v">>, <<"id">>, <<"id", "v", "id">>}

IndexKeys == {<<>>, <<"id">>, <<"v">>, <<"id", "v">>, <<"w">>}

IndexProjs ==
  {<<>>, << <<"v", "x">> >>, << <<"id", "y">> >>, << <<"v", "x">>, <<"id", "y">> >>,
   << <<"id", "y">>, <<"v", "x">> >>, << <<"v", "x">>, <<"w", "z">> >>}

InitIndex ==
  /\ doc \in {d \in DocsOf(IndexKeys, IndexProjs, {"out.csv"}, 1) :
                \A x \in DOMAIN d.sources : d.sources[x].path = "a.csv"}
  /\ fs \in {("a.csv" :> fa) @@ ("b.csv" :> Missing) :
               fa \in FilesOf("a.csv", IndexHeaders, RowKinds, MaxRows)}
  /\ st = Start
  /\ st2 = Start

SpecIndex == InitIndex /\ [][Next]_vars

(***************************************************************************)
(* SpecPair: two runs of main over the same document and files, each with *)
(* its own HashMap seeds, stepping together.  The output can be created.  *)
(***************************************************************************)
InitPair ==
  /\ doc \in DocsOf(JoinKeys, JoinProjs, Creatable, MaxSources)
  /\ fs \in JoinFileSystems
  /\ st = Start
  /\ st2 = Start

PairStep ==
  /\ CanStep(st) \/ CanStep(st2)
  /\ \E seed \in Seeds, seed2 \in Seeds :
       /\ st' = IF CanStep(st) THEN Step(st, seed) ELSE st
       /\ st2' = IF CanStep(st2) THEN Step(st2, seed2) ELSE st2
  /\ UNCHANGED <<doc, fs>>

SpecPair == InitPair /\ [][PairStep]_vars

(***************************************************************************)
(* What the files say, read directly: the reference the claims compare    *)
(* the run against.  A column name denotes its last occurrence in the     *)
(* header.                                                                 *)
(***************************************************************************)
ColumnOf(header, name) ==
  CHOOSE c \in DOMAIN header :
    header[c] = name /\ \A d \in DOMAIN header : d > c => header[d] # name

CellsOf(f, r, names) == [c \in DOMAIN names |-> f.rows[r][ColumnOf(f.header, names[c])]]

SourceFile(x) == fs[st.spec.sources[x].path]

Requested(x) == Range(st.spec.key) \cup Range(ProjKeys(st.spec.sources[x].projections))

LacksColumn(x) == SourceFile(x).exists /\ ~(Requested(x) \subseteq Range(SourceFile(x).header))

BadRows(x) == {r \in DOMAIN SourceFile(x).rows : Len(SourceFile(x).rows[r]) # Len(SourceFile(x).header)}

Readable(x) == SourceFile(x).exists /\ ~LacksColumn(x) /\ BadRows(x) = {}

RowKey(x, r) == CellsOf(SourceFile(x), r, st.spec.key)

RowProj(x, r) == CellsOf(SourceFile(x), r, ProjKeys(st.spec.sources[x].projections))

RowsWith(x, k, m) == {r \in 1..m : RowKey(x, r) = k}

FirstRow(x, k, m) == CHOOSE r \in RowsWith(x, k, m) : \A q \in RowsWith(x, k, m) : r <= q

LastRow(x, k, m) == CHOOSE r \in RowsWith(x, k, m) : \A q \in RowsWith(x, k, m) : r >= q

NumRows(x) == Len(SourceFile(x).rows)

(* source x has been opened by read_file *)
Entered(x) == x < st.i \/ (x = st.i /\ st.pc # "open")

Failed == st.outcome.kind \in {"error", "panic"}

(***************************************************************************)
(* Claims about read_file, under SpecIndex.                                *)
(***************************************************************************)

(* data is the index of the first m rows of source x: one entry per       *)
(* distinct Key, holding the Projection of the last row with that Key, at *)
(* the position of the Key's first row.                                    *)
IsIndexOf(data, x, m) ==
  /\ \A a, b \in DOMAIN data : data[a].key = data[b].key => a = b
  /\ {data[a].key : a \in DOMAIN data} = {RowKey(x, r) : r \in 1..m}
  /\ \A a \in DOMAIN data : data[a].val = RowProj(x, LastRow(x, data[a].key, m))
  /\ \A a, b \in DOMAIN data :
       a < b => FirstRow(x, data[a].key, m) < FirstRow(x, data[b].key, m)

(* C5: when a Key occurs in several rows of a source, the map read_file   *)
(* builds holds the Projection of the last such row at the position of    *)
(* the Key's first occurrence, with exactly one entry per distinct Key;   *)
(* this holds of the map after every record and of every map returned.    *)
C5_LastWriteWinsAtFirstPosition ==
  /\ st.pc = "rows" => IsIndexOf(st.data, st.i, st.n)
  /\ \A x \in DOMAIN st.input : IsIndexOf(st.input[x], x, NumRows(x))

(* a returned map of a three-row file whose first and third rows share a  *)
(* Key and differ in Projection                                            *)
C5_Witness ==
  /\ Len(st.input) = 1
  /\ NumRows(1) = 3
  /\ RowKey(1, 1) = RowKey(1, 3)
  /\ RowKey(1, 1) # RowKey(1, 2)
  /\ RowProj(1, 1) # RowProj(1, 3)
  /\ Len(st.input[1]) = 2
  /\ st.input[1][1] = [key |-> RowKey(1, 1), val |-> RowProj(1, 3)]

(* the failing header lookup of lines 45 and 49: the program's form of a  *)
(* column-not-found failure                                                *)
ColumnNotFound(o) == o.kind = "panic" /\ o.what = "unwrap on None" /\ o.line \in {45, 49}

FirstBadRow(x) == CHOOSE r \in BadRows(x) : \A q \in BadRows(x) : r <= q

(* C7: indexing is all-or-nothing: once read_file has taken a record      *)
(* whose field count differs from the header's, it has failed with the    *)
(* csv error naming that record's position, and no map of that source,    *)
(* partial or not, is kept or returned.                                    *)
C7_MalformedRowNoPartialIndex ==
  \A x \in DOMAIN st.spec.sources :
    (/\ Entered(x)
     /\ SourceFile(x).exists
     /\ ~LacksColumn(x)
     /\ BadRows(x) # {}
     /\ (x < st.i \/ st.n >= FirstBadRow(x))) =>
      /\ x = st.i
      /\ st.pc = "done"
      /\ st.outcome = Err("csv::UnequalLengths", FirstBadRow(x))
      /\ st.data = <<>>
      /\ Len(st.input) = x - 1
      /\ ~st.created

(* the third record is malformed, after two records that were indexed *)
C7_Witness ==
  /\ st.pc = "done"
  /\ Len(st.spec.sources) = 1
  /\ st.i = 1
  /\ NumRows(1) = 3
  /\ BadRows(1) = {3}
  /\ ~LacksColumn(1)
  /\ RowKey(1, 1) # RowKey(1, 2)
  /\ st.outcome = Err("csv::UnequalLengths", 3)
  /\ st.input = <<>>


(***************************************************************************)
(* Claims about the whole run, under Spec.                                 *)
(***************************************************************************)
NumSources == Len(st.spec.sources)

NumKeyCols == Len(st.spec.key)

(* the data rows written so far, and the Key each starts with *)
DataRows == [x \in 1..(Len(st.out) - 1) |-> st.out[x + 1]]

OutKeys == [x \in DOMAIN DataRows |-> SubSeq(DataRows[x], 1, NumKeyCols)]

(* the Projection of source x for Key k: that of the last row with k *)
ProjectionFor(x, k) == RowProj(x, LastRow(x, k, NumRows(x)))

RECURSIVE ProjectionsFrom(_, _)
ProjectionsFrom(x, k) ==
  IF x > NumSources THEN <<>> ELSE ProjectionFor(x, k) \o ProjectionsFrom(x + 1, k)

(* the distinct Keys of source x's file, in order of first appearance *)
RECURSIVE KeysFrom(_, _, _)
KeysFrom(x, r, seen) ==
  IF r > NumRows(x) THEN seen
  ELSE IF RowKey(x, r) \in Range(seen) THEN KeysFrom(x, r + 1, seen)
  ELSE KeysFrom(x, r + 1, Append(seen, RowKey(x, r)))

DistinctKeys(x) == KeysFrom(x, 1, <<>>)

(* C1: every data row written is its Key, then the driver's Projection    *)
(* for that Key, then every other source's Projection for it in           *)
(* declaration order; on success every Key of the driver has its row.     *)
C1_RowIsKeyThenProjections ==
  /\ \A x \in DOMAIN DataRows : DataRows[x] = OutKeys[x] \o ProjectionsFrom(1, OutKeys[x])
  /\ st.outcome.kind = "ok" =>
       {OutKeys[x] : x \in DOMAIN DataRows} = {RowKey(1, r) : r \in 1..NumRows(1)}

(* the round trip of the specification: A has ids 1, 2 and B has 2, 1 *)
C1_Witness ==
  /\ st.outcome.kind = "ok"
  /\ st.spec.key = <<"id">>
  /\ NumSources = 2
  /\ st.spec.sources[1].path = "a.csv"
  /\ st.spec.sources[2].path = "b.csv"
  /\ fs["a.csv"].rows = << <<"a1", "1">>, <<"a2", "2">> >>
  /\ fs["b.csv"].rows = << <<"b1", "2">>, <<"b2", "1">> >>
  /\ DataRows = << <<"1", "a1", "1", "b2", "1">>, <<"2", "a2", "2", "b1", "2">> >>

(* C2: on success the Keys of the data rows, in order, are the distinct   *)
(* Keys of the first source's file in order of first appearance: one row  *)
(* per Key of the first source, none for a Key only other sources have,   *)
(* whatever the row order of the other sources.                            *)
C2_RowsFollowDriverKeys ==
  st.outcome.kind = "ok" => OutKeys = DistinctKeys(1)

(* the driver has ids 2, 1; the other source has them as 1, 2 *)
C2_Witness ==
  /\ st.outcome.kind = "ok"
  /\ st.spec.key = <<"id">>
  /\ NumSources = 2
  /\ st.spec.sources[1].path # st.spec.sources[2].path
  /\ OutKeys = << <<"2">>, <<"1">> >>
  /\ NumRows(2) = 2
  /\ RowKey(2, 1) = <<"1">>
  /\ RowKey(2, 2) = <<"2">>

RECURSIVE OutputNamesFrom(_)
OutputNamesFrom(x) ==
  IF x > NumSources THEN <<>>
  ELSE [c \in DOMAIN st.spec.sources[x].projections |-> st.spec.sources[x].projections[c][2]]
         \o OutputNamesFrom(x + 1)

(* C6: the header is the first record written and the only one that is    *)
(* not a data row: the key column names in key order, then each source's  *)
(* projection output names in declaration and insertion order; every      *)
(* record has the header's number of fields; a successful run has written *)
(* the header and one row per driver Key.                                  *)
C6_HeaderFirstAndOnce ==
  /\ st.created => st.out # <<>>
  /\ st.out # <<>> =>
       /\ st.created
       /\ st.out[1] = st.spec.key \o OutputNamesFrom(1)
       /\ \A x \in DOMAIN st.out : Len(st.out[x]) = Len(st.out[1])
  /\ st.outcome.kind = "ok" =>
       Len(st.out) = 1 + Cardinality({RowKey(1, r) : r \in 1..NumRows(1)})

C6_Witness ==
  /\ st.outcome.kind = "ok"
  /\ NumSources = 2
  /\ st.out[1] = <<"id", "x", "y", "x", "y">>
  /\ Len(st.out) = 3


IsPrefix(a, b) == Len(a) <= Len(b) /\ a = SubSeq(b, 1, Len(a))

(* the files a complete run opens, in order *)
ExpectedIO ==
  <<IoSpec>> \o [x \in 1..NumSources |-> IoOpen(st.spec.sources[x].path)]
    \o <<IoCreate(st.spec.output)>>

OutputTouched == st.created \/ st.out # <<>> \/ \E e \in Range(st.io) : e.op = "create"

(* C10: the run opens the specification, then the sources one at a time   *)
(* in declaration order, then the output, which it touches only once      *)
(* every source is indexed; a failure ends the run where it happens and   *)
(* nothing is enabled afterwards: a specification error has opened no     *)
(* source, a failure indexing a source has opened no later source and has *)
(* not touched the output.                                                 *)
C10_FailFastPipeline ==
  /\ IsPrefix(st.io, ExpectedIO)
  /\ OutputTouched => Len(st.input) = NumSources
  /\ Failed => st.pc = "done"
  /\ st.pc = "done" => ~ENABLED Next
  /\ (Failed /\ ~(doc.readable /\ doc.wellFormed)) => (st.io = <<IoSpec>> /\ ~OutputTouched)
  /\ (Failed /\ Len(st.input) < NumSources) =>
       (st.io = SubSeq(ExpectedIO, 1, Len(st.input) + 2) /\ ~OutputTouched)

(* the first of two sources has a malformed record: the second is never   *)
(* opened and the output is not created                                    *)
C10_Witness ==
  /\ Failed
  /\ NumSources = 2
  /\ st.outcome.what = "csv::UnequalLengths"
  /\ st.io = <<IoSpec, IoOpen(st.spec.sources[1].path)>>
  /\ Readable(2)
  /\ ~st.created

(* the sources other than the driver whose file has no row with Key k *)
MissingIn(k) == {x \in 2..NumSources : RowsWith(x, k, NumRows(x)) = {}}

FirstMissingIn(k) == CHOOSE x \in MissingIn(k) : \A y \in MissingIn(k) : x <= y

(* C3: when the row loop of a join with a non-empty key comes to a driver  *)
(* Key that some other source lacks, the run does not succeed and does not skip the row: it ends     *)
(* there with a failure that identifies the missing Key and the           *)
(* offending source.                                                       *)
C3_MissingKeyIdentified ==
  (NumKeyCols > 0 /\ NumSources >= 2 /\ Len(st.input) = NumSources /\ st.created
     /\ st.pc \in {"emit", "done"}) =>
    \A p \in DOMAIN DistinctKeys(1) :
      LET k == DistinctKeys(1)[p] IN
      (MissingIn(k) # {} /\ (st.j >= p \/ (st.pc = "done" /\ st.j = p - 1))) =>
        /\ Failed
        /\ st.j = p - 1
        /\ Len(st.out) = p
        /\ st.outcome.key = {k}
        /\ st.outcome.path = {st.spec.sources[FirstMissingIn(k)].path}

(* C8: a JoinSpec that reaches indexing or output writing has a non-empty *)
(* key and a non-empty list of sources.                                    *)
C8_SpecNonEmpty ==
  (st.pc \in {"open", "rows", "write", "emit"} \/ Len(st.io) > 1) =>
    (NumKeyCols > 0 /\ NumSources > 0)

(***************************************************************************)
(* Claim about two runs, under SpecPair.                                   *)
(***************************************************************************)

(* C9: two runs over the same specification document and the same files   *)
(* end in the same outcome with the same output, whatever the seeds of    *)
(* their header maps.                                                      *)
C9_SameInputsSameResult ==
  (st.pc = "done" /\ st2.pc = "done") =>
    /\ st.outcome = st2.outcome
    /\ st.created = st2.created
    /\ st.out = st2.out

C9_Witness ==
  /\ st.pc = "done"
  /\ st2.pc = "done"
  /\ st.outcome.kind = "ok"
  /\ NumSources = 2
  /\ st.spec.key = <<"id">>
  /\ Len(st.out) = 3
  /\ st2.out = st.out


====
